---- MODULE Spec2Model ----
(***************************************************************************)
(* Model of discord_aiops_project_bot.py: the sqlite task store, the       *)
(* claim / completion handlers, the weekly announcement message with its  *)
(* buttons, and the commands that mutate the store.                        *)
(*                                                                         *)
(* Every handler runs on the single asyncio event loop of discord.py, so   *)
(* the code between two `await`s is one atomic step; a handler is split    *)
(* into one action per stretch of code between suspension points.          *)
(*                                                                         *)
(* A text (str) holding a date is modelled by its layout: the separator    *)
(* and the three numeric fields, [sep, f1, f2, f3].  A datetime.date is a  *)
(* record [y, m, d].                                                       *)
(***************************************************************************)
EXTENDS Integers, Sequences, FiniteSets, Bags, TLC

(***************************************************************************)
(* Bounds of the model.                                                    *)
(***************************************************************************)
MaxTasks == 3
MaxOps == 4
MaxInFlight == 2

Users == {1, 2}
\* users who add tasks
Authors == {1}
\* users for whom guild_permissions.manage_messages is true
Moderators == {2}
Channels == {1, 2}
\* values of the PROJECT_CHANNEL_ID environment variable: a deployment with
\* the dedicated channel configured (0 would mean none)
ChannelConfigs == {1}
TaskIds == 1..MaxTasks
\* the announcement message published by announce_week
MessageIds == {1}

Text(sep, a, b, c) == [sep |-> sep, f1 |-> a, f2 |-> b, f3 |-> c]
Date(y, m, d) == [y |-> y, m |-> m, d |-> d]

\* texts typed as the due date of addtask: 2025-01-29 (Wednesday),
\* 02/02/2025 (Sunday of the same week), 03-02-2025 (Monday of the next
\* week), 2025/01/29, which has none of the accepted layouts, and
\* 31-02-2025, which has one of them and names no day
DueTexts ==
    { Text("-", 2025, 1, 29), Text("/", 2, 2, 2025),
      Text("-", 3, 2, 2025), Text("/", 2025, 1, 29), Text("-", 31, 2, 2025) }
\* texts typed as the week of announce_week; NoArg is the
\* omitted argument (None)
NoArg == Text("", 0, 0, 0)
WeekTexts == { Text("-", 2025, 1, 27), Text("/", 27, 1, 2025), NoArg }
\* values of date.today()
Todays == { Date(2025, 1, 28) }

(***************************************************************************)
(* datetime.date arithmetic                                                *)
(***************************************************************************)
IsLeap(y) == (y % 4 = 0) /\ ((y % 100 # 0) \/ (y % 400 = 0))

DaysInMonth(y, m) ==
    IF m = 2 THEN (IF IsLeap(y) THEN 29 ELSE 28)
    ELSE IF m \in {4, 6, 9, 11} THEN 30 ELSE 31

RECURSIVE DaysBeforeMonth(_, _)
DaysBeforeMonth(y, m) ==
    IF m <= 1 THEN 0 ELSE DaysBeforeMonth(y, m - 1) + DaysInMonth(y, m - 1)

DaysBeforeYear(y) ==
    (y - 1) * 365 + ((y - 1) \div 4) - ((y - 1) \div 100) + ((y - 1) \div 400)

\* date.toordinal()
ToOrdinal(dt) == DaysBeforeYear(dt.y) + DaysBeforeMonth(dt.y, dt.m) + dt.d

\* date.weekday(): Monday = 0 ... Sunday = 6
Weekday(dt) == (ToOrdinal(dt) + 6) % 7

PrevDay(dt) ==
    IF dt.d > 1 THEN Date(dt.y, dt.m, dt.d - 1)
    ELSE IF dt.m > 1 THEN Date(dt.y, dt.m - 1, DaysInMonth(dt.y, dt.m - 1))
    ELSE Date(dt.y - 1, 12, 31)

\* dt - timedelta(days=k)
RECURSIVE MinusDays(_, _)
MinusDays(dt, k) == IF k = 0 THEN dt ELSE MinusDays(PrevDay(dt), k - 1)

\* the fields y, m, d name a calendar date that datetime accepts
ValidDate(y, m, d) ==
    /\ y \in 1..9999
    /\ m \in 1..12
    /\ d \in 1..DaysInMonth(y, m)

\* date.isoformat(): zero-padded YYYY-MM-DD
iso_date(dt) == Text("-", dt.y, dt.m, dt.d)

\* datetime.strptime(s, fmt).date() for the three layouts of parse_date;
\* %Y takes exactly four digits, %d and %m at most two
FourDigits(n) == n \in 1000..9999
TwoDigits(n) == n \in 0..99
Formats == << "%Y-%m-%d", "%d/%m/%Y", "%d-%m-%Y" >>

strptime_ok(s, fmt) ==
    CASE fmt = "%Y-%m-%d" ->
            s.sep = "-" /\ FourDigits(s.f1) /\ TwoDigits(s.f2) /\ TwoDigits(s.f3)
            /\ ValidDate(s.f1, s.f2, s.f3)
      [] fmt = "%d/%m/%Y" ->
            s.sep = "/" /\ TwoDigits(s.f1) /\ TwoDigits(s.f2) /\ FourDigits(s.f3)
            /\ ValidDate(s.f3, s.f2, s.f1)
      [] fmt = "%d-%m-%Y" ->
            s.sep = "-" /\ TwoDigits(s.f1) /\ TwoDigits(s.f2) /\ FourDigits(s.f3)
            /\ ValidDate(s.f3, s.f2, s.f1)

strptime(s, fmt) ==
    IF fmt = "%Y-%m-%d" THEN Date(s.f1, s.f2, s.f3) ELSE Date(s.f3, s.f2, s.f1)

\* parse_date raises ValueError when no layout matches
parse_date_ok(s) == \E i \in 1..Len(Formats) : strptime_ok(s, Formats[i])

parse_date(s) ==
    LET i == CHOOSE k \in 1..Len(Formats) :
                 /\ strptime_ok(s, Formats[k])
                 /\ \A j \in 1..(k - 1) : ~strptime_ok(s, Formats[j])
    IN strptime(s, Formats[i])

\* (due - timedelta(days=due.weekday())).isoformat()
\* a week that starts on Sunday, as isoweekday() % 7 would give
week_start_of_sunday(dt) == iso_date(MinusDays(dt, (Weekday(dt) + 1) % 7))
week_start_of(dt) == iso_date(MinusDays(dt, Weekday(dt)))

(***************************************************************************)
(* The sqlite table `tasks`: a function from the ids of the stored rows to *)
(* the rows.  created_at is written by add_task and never read; it is not  *)
(* part of the model.                                                      *)
(***************************************************************************)
Title == "t"
NoDescription == ""

\* row inserted by add_task: completed DEFAULT 0, claimed_by DEFAULT '[]'
NewRow(id, due, created_by) ==
    [ id |-> id, title |-> Title, description |-> NoDescription,
      due_date |-> iso_date(due), created_by |-> created_by,
      completed |-> 0, claimed_by |-> << >>,
      week_start |-> week_start_of(due) ]

\* INTEGER PRIMARY KEY without AUTOINCREMENT: one more than the largest
\* rowid that is stored now
add_task_max_rowid(tbl, lastid, due_text, created_by) ==
    LET id == IF DOMAIN tbl = {} THEN 1
              ELSE 1 + CHOOSE i \in DOMAIN tbl : \A j \in DOMAIN tbl : j <= i
    IN (id :> NewRow(id, parse_date(due_text), created_by)) @@ tbl

\* INSERT INTO tasks ...; the id is one more than the largest id ever used
\* (INTEGER PRIMARY KEY AUTOINCREMENT, kept in sqlite_sequence)
add_task(tbl, lastid, due_text, created_by) ==
    (lastid + 1 :> NewRow(lastid + 1, parse_date(due_text), created_by)) @@ tbl

\* get_task returns None when no row has the id
get_task_found(tbl, task_id) == task_id \in DOMAIN tbl

InList(x, list) == \E i \in 1..Len(list) : list[i] = x

\* claim_list writing back only the new claimer (a lost update)
claim_list_overwrite(claimed, user_id) == << user_id >>

\* claim_list without the membership test
claim_list_append(claimed, user_id) == Append(claimed, user_id)

\* if user_id not in claimed: claimed.append(user_id)
claim_list(claimed, user_id) ==
    IF InList(user_id, claimed) THEN claimed ELSE Append(claimed, user_id)

\* if user_id in claimed: claimed.remove(user_id)   (first occurrence)
unclaim_list(claimed, user_id) ==
    IF InList(user_id, claimed)
    THEN LET k == CHOOSE i \in 1..Len(claimed) :
                      /\ claimed[i] = user_id
                      /\ \A j \in 1..(i - 1) : claimed[j] # user_id
         IN SubSeq(claimed, 1, k - 1) \o SubSeq(claimed, k + 1, Len(claimed))
    ELSE claimed

\* set_claimed_by rewriting the whole row with the column defaults
set_claimed_by_replace_row(tbl, task_id, claimed) ==
    [tbl EXCEPT ![task_id].claimed_by = claimed, ![task_id].completed = 0]

\* UPDATE tasks SET claimed_by = ? WHERE id = ?
set_claimed_by(tbl, task_id, claimed) ==
    [tbl EXCEPT ![task_id].claimed_by = claimed]

claim_task(tbl, task_id, user_id) ==
    IF ~get_task_found(tbl, task_id) THEN tbl
    ELSE set_claimed_by(tbl, task_id, claim_list(tbl[task_id].claimed_by, user_id))

unclaim_task(tbl, task_id, user_id) ==
    IF ~get_task_found(tbl, task_id) THEN tbl
    ELSE set_claimed_by(tbl, task_id, unclaim_list(tbl[task_id].claimed_by, user_id))

\* UPDATE tasks SET completed = 1 with its WHERE clause left out
complete_task_every_row(tbl, task_id) ==
    [i \in DOMAIN tbl |-> [tbl[i] EXCEPT !.completed = 1]]

\* UPDATE tasks SET completed = 1 WHERE id = ?   (no row: nothing updated)
complete_task(tbl, task_id) ==
    IF task_id \in DOMAIN tbl THEN [tbl EXCEPT ![task_id].completed = 1] ELSE tbl

\* DELETE FROM tasks WHERE id = ?
delete_row(tbl, task_id) == [i \in DOMAIN tbl \ {task_id} |-> tbl[i]]

\* TextLess on texts stored day first (DD-MM-YYYY)
TextLessDayFirst(a, b) ==
    \/ a.f3 < b.f3
    \/ a.f3 = b.f3 /\ a.f2 < b.f2
    \/ a.f3 = b.f3 /\ a.f2 = b.f2 /\ a.f1 < b.f1

\* comparison of two stored texts by ORDER BY: the zero-padded YYYY-MM-DD
\* texts compare field by field from the left
TextLess(a, b) ==
    \/ a.f1 < b.f1
    \/ a.f1 = b.f1 /\ a.f2 < b.f2
    \/ a.f1 = b.f1 /\ a.f2 = b.f2 /\ a.f3 < b.f3

\* ORDER BY due_date; rows with equal due_date come in rowid (scan) order
RowBefore(r1, r2) ==
    \/ TextLess(r1.due_date, r2.due_date)
    \/ r1.due_date = r2.due_date /\ r1.id < r2.id

RECURSIVE order_by_due(_, _)
order_by_due(tbl, ids) ==
    IF ids = {} THEN << >>
    ELSE LET first == CHOOSE i \in ids :
                          \A j \in ids \ {i} : RowBefore(tbl[i], tbl[j])
         IN << tbl[first] >> \o order_by_due(tbl, ids \ {first})

\* SELECT * FROM tasks WHERE week_start = ? ORDER BY due_date
get_tasks_for_week(tbl, week_start_iso) ==
    order_by_due(tbl, {i \in DOMAIN tbl : tbl[i].week_start = week_start_iso})

\* SELECT * FROM tasks WHERE week_start = ? AND completed = 0 ORDER BY due_date
get_open_tasks_for_week(tbl, week_start_iso) ==
    order_by_due(tbl, {i \in DOMAIN tbl :
                          tbl[i].week_start = week_start_iso /\ tbl[i].completed = 0})

(***************************************************************************)
(* The announcement message: the embed (one field per task) and the view   *)
(* (a Claim and a Complete button per task), with the callbacks the view   *)
(* carries: those defined in _announce_week ("announce") or those defined  *)
(* in refresh_announcement ("refresh"), and the week_start they close over.*)
(***************************************************************************)
\* embed field of _announce_week: no status mark
AnnounceField(t) ==
    [ id |-> t.id, title |-> t.title, status |-> "", due |-> t.due_date,
      claimers |-> t.claimed_by ]

\* embed field of refresh_announcement: status mark from completed
RefreshField(t) ==
    [ id |-> t.id, title |-> t.title,
      status |-> IF t.completed # 0 THEN "done" ELSE "open",
      due |-> t.due_date, claimers |-> t.claimed_by ]


\* embed and view built by _announce_week from the open tasks of the week
announce_view(tbl, week_start) ==
    LET tasks_week == get_open_tasks_for_week(tbl, week_start)
    IN [ flow |-> "announce", week |-> week_start,
         embed |-> [i \in 1..Len(tasks_week) |-> AnnounceField(tasks_week[i])],
         buttons |-> { tasks_week[i].id : i \in 1..Len(tasks_week) } ]

\* embed and view built by refresh_announcement: every task of the week in
\* the embed, buttons for the tasks with completed == 0
refresh_view(tbl, week_start) ==
    LET tasks_week == get_tasks_for_week(tbl, week_start)
    IN [ flow |-> "refresh", week |-> week_start,
         embed |-> [i \in 1..Len(tasks_week) |-> RefreshField(tasks_week[i])],
         buttons |-> { tasks_week[i].id :
                          i \in {k \in 1..Len(tasks_week) : tasks_week[k].completed = 0} } ]

NoView == [flow |-> "none", week |-> NoArg, embed |-> << >>, buttons |-> {}]

\* may_complete without the manage_messages alternative
may_complete_claimers_only(row, user_id) == InList(user_id, row.claimed_by)

\* "if interaction.user.id in claimed or ...guild_permissions.manage_messages"
may_complete(row, user_id) ==
    InList(user_id, row.claimed_by) \/ user_id \in Moderators

\* "if PROJECT_CHANNEL_ID and ctx.channel.id != PROJECT_CHANNEL_ID"
wrong_channel(project_channel_id, channel_id) ==
    project_channel_id # 0 /\ channel_id # project_channel_id

(***************************************************************************)
(* State                                                                   *)
(***************************************************************************)
VARIABLES
    tasks,              \* table tasks: id -> row
    lastid,             \* sqlite_sequence of tasks: the largest id ever used
    announcements,      \* table announcements: message_id -> week_start
    messages,           \* the announcement messages as delivered: id -> view
    announcing,         \* the _announce_week command suspended in ctx.send
    inflight,           \* bag of the button callbacks suspended in an await
    reply,              \* the message the last step sent to its requester
    project_channel_id, \* PROJECT_CHANNEL_ID
    scan,               \* the run of check_deadlines: its locals and what it sent
    nops                \* number of commands, button presses and timer runs so far

vars == << tasks, lastid, announcements, messages, announcing, inflight,
           reply, project_channel_id, scan, nops >>

NotAnnouncing == [pc |-> "idle", view |-> NoView, msg |-> 0]

\* a suspended callback: where it is suspended, its task_id and
\* interaction.user.id, the message it edits, the embed and view it sends,
\* and the acknowledgement it sends at its end
Handler(pc, task_id, user, m, view, resp) ==
    [pc |-> pc, task |-> task_id, user |-> user, msg |-> m, view |-> view,
     resp |-> resp]
Handlers == BagToSet(inflight)
\* the callback h after message.edit: only the acknowledgement is left to do
AfterEdit(h) ==
    (inflight (-) SetToBag({h})) (+) SetToBag({Handler("ack", h.task, h.user, h.msg, NoView, h.resp)})

(***************************************************************************)
(* check_deadlines                                                         *)
(***************************************************************************)
\* REMINDER_HOURS, as the environment leaves it by default
REMINDER_HOURS == 48

\* a datetime to the hour; datetimes compare by their hours since the
\* start of the calendar
Datetime(dt, h) == [date |-> dt, hour |-> h]
Hours(x) == 24 * ToOrdinal(x.date) + x.hour

\* values of datetime.utcnow() at the start of a run: 49 and 48 hours before
\* the midnight of 2025-01-29, that midnight, one hour after it, and 48
\* hours before the midnight of 2025-02-03
Nows ==
    { Datetime(Date(2025, 1, 26), 23), Datetime(Date(2025, 1, 27), 0),
      Datetime(Date(2025, 1, 29), 0), Datetime(Date(2025, 1, 29), 1),
      Datetime(Date(2025, 2, 1), 0) }
\* a time before every run
BeforeRuns == Datetime(Date(2025, 1, 26), 0)

\* datetime.fromisoformat of a date text: the midnight of that day; the
\* strptime of the except branch accepts the same texts
fromisoformat_ok(s) == strptime_ok(s, "%Y-%m-%d")
fromisoformat(s) == Datetime(strptime(s, "%Y-%m-%d"), 0)

\* a window open at its far end
in_window_exclusive(now, due) ==
    Hours(now) <= Hours(due) /\ Hours(due) < Hours(now) + REMINDER_HOURS

\* soon = now + timedelta(hours=REMINDER_HOURS); now <= due <= soon
in_window(now, due) ==
    Hours(now) <= Hours(due) /\ Hours(due) <= Hours(now) + REMINDER_HOURS

\* bot.get_channel returns None for 0 and for an id that is no channel
get_channel_found(channel_id) == channel_id \in Channels

RECURSIVE Ascending(_)
Ascending(ids) ==
    IF ids = {} THEN << >>
    ELSE LET least == CHOOSE i \in ids : \A j \in ids : i <= j
         IN << least >> \o Ascending(ids \ {least})

\* SELECT * FROM tasks WHERE completed = 0; fetchall(): the rows, by rowid
fetchall_open(tbl) ==
    LET ids == Ascending({ i \in DOMAIN tbl : tbl[i].completed = 0 })
    IN [k \in 1..Len(ids) |-> tbl[ids[k]]]

\* the text given to channel.send: the task, and the mentions of its
\* claimers or the warning that nobody has claimed it
notification(r) ==
    [ id |-> r.id, due |-> r.due_date, mentions |-> r.claimed_by,
      unclaimed |-> r.claimed_by = << >> ]

\* a loop body that leaves out the tasks of the run before
sends_for_once(r, now) ==
    /\ fromisoformat_ok(r.due_date)
    /\ in_window(now, fromisoformat(r.due_date))
    /\ get_channel_found(project_channel_id)
    /\ r.id \notin scan.before

\* the body of the for loop reaches a channel.send for the row r
sends_for(r, now) ==
    /\ fromisoformat_ok(r.due_date)
    /\ in_window(now, fromisoformat(r.due_date))
    /\ get_channel_found(project_channel_id)

\* the for loop over rows, up to the first row it sends for
RECURSIVE next_to_send(_, _)
next_to_send(rows, now) ==
    IF rows = << >> THEN << >>
    ELSE IF sends_for(Head(rows), now) THEN rows
    ELSE next_to_send(Tail(rows), now)

\* no run of check_deadlines yet
NoScan ==
    [ pc |-> "idle", run |-> 0, now |-> BeforeRuns, rows |-> << >>,
      sent |-> << >>, store0 |-> << >>, before |-> {} ]

\* The database file outlives the process: init_db creates the tables only
\* if they are missing.  The bot starts on a new file, or on a file in which
\* two addtask commands of an earlier run have left their rows.
EarlierRows ==
    add_task(add_task(<< >>, 0, Text("/", 2, 2, 2025), 1), 1, Text("-", 2025, 1, 29), 1)
InitialTables == { << >>, EarlierRows }

\* on_ready: init_db, no command running, no message of this run published
Init ==
    /\ tasks \in InitialTables
    /\ lastid = Cardinality(DOMAIN tasks)
    /\ announcements = << >>
    /\ messages = << >>
    /\ announcing = NotAnnouncing
    /\ inflight = EmptyBag
    /\ reply = "none"
    /\ project_channel_id \in ChannelConfigs
    /\ scan = NoScan
    /\ nops = 0

Op == nops < MaxOps /\ nops' = nops + 1

(***************************************************************************)
(* Commands                                                                *)
(***************************************************************************)
\* _addtask
\* an addtask that takes its id before it parses the date
addtask_consumes_id(channel, due_date, author) ==
    /\ Op
    /\ lastid < MaxTasks
    /\ lastid' = lastid + 1
    /\ IF wrong_channel(project_channel_id, channel)
       THEN reply' = "wrong_channel" /\ UNCHANGED tasks
       ELSE IF ~parse_date_ok(due_date)
       THEN reply' = "date_error" /\ UNCHANGED tasks
       ELSE /\ tasks' = add_task(tasks, lastid, due_date, author)
            /\ reply' = "added"
    /\ UNCHANGED << announcements, messages, announcing, inflight, project_channel_id, scan >>

addtask(channel, due_date, author) ==
    /\ Op
    /\ IF wrong_channel(project_channel_id, channel)
       THEN reply' = "wrong_channel" /\ UNCHANGED << tasks, lastid >>
       ELSE IF ~parse_date_ok(due_date)
       THEN reply' = "date_error" /\ UNCHANGED << tasks, lastid >>
       ELSE /\ lastid < MaxTasks
            /\ tasks' = add_task(tasks, lastid, due_date, author)
            /\ lastid' = lastid + 1
            /\ reply' = "added"
    /\ UNCHANGED << announcements, messages, announcing, inflight, project_channel_id, scan >>

\* the week a command falls back to when its argument is omitted
default_week(week_text, today) ==
    IF week_text = NoArg THEN iso_date(MinusDays(today, Weekday(today)))
    ELSE week_text

\* _complete; ctx.channel is not looked at
complete(channel, task_id, author) ==
    /\ Op
    /\ IF ~get_task_found(tasks, task_id)
       THEN reply' = "not_found" /\ UNCHANGED tasks
       ELSE IF may_complete(tasks[task_id], author)
       THEN tasks' = complete_task(tasks, task_id) /\ reply' = "completed"
       ELSE reply' = "complete_denied" /\ UNCHANGED tasks
    /\ UNCHANGED << lastid, announcements, messages, announcing, inflight,
                    project_channel_id, scan >>

\* _deletetask without the manage_messages test
deletetask_unchecked(channel, task_id, author) ==
    /\ Op
    /\ IF ~get_task_found(tasks, task_id)
       THEN reply' = "delete_not_found" /\ UNCHANGED tasks
       ELSE tasks' = delete_row(tasks, task_id) /\ reply' = "deleted"
    /\ UNCHANGED << lastid, announcements, messages, announcing, inflight,
                    project_channel_id, scan >>

\* _deletetask; ctx.channel is not looked at
deletetask(channel, task_id, author) ==
    /\ Op
    /\ IF author \notin Moderators
       THEN reply' = "delete_denied" /\ UNCHANGED tasks
       ELSE IF ~get_task_found(tasks, task_id)
       THEN reply' = "delete_not_found" /\ UNCHANGED tasks
       ELSE tasks' = delete_row(tasks, task_id) /\ reply' = "deleted"
    /\ UNCHANGED << lastid, announcements, messages, announcing, inflight,
                    project_channel_id, scan >>

\* _announce_week up to `await ctx.send(embed=embed, view=view)`
announce_week(channel, week_text, today) ==
    /\ Op
    /\ announcing.pc = "idle"
    /\ DOMAIN messages # MessageIds
    /\ LET week_start == default_week(week_text, today)
       IN IF wrong_channel(project_channel_id, channel)
          THEN reply' = "wrong_channel" /\ UNCHANGED announcing
          ELSE IF ~parse_date_ok(week_start)
          THEN reply' = "bad_week" /\ UNCHANGED announcing
          ELSE IF get_open_tasks_for_week(tasks, week_start) = << >>
          THEN reply' = "no_open_tasks" /\ UNCHANGED announcing
          ELSE /\ announcing' = [pc |-> "send", msg |-> 0,
                                  view |-> announce_view(tasks, week_start)]
               /\ reply' = "none"
    /\ UNCHANGED << tasks, lastid, announcements, messages, inflight, project_channel_id, scan >>

NewMessageId == CHOOSE m \in MessageIds : m \notin DOMAIN messages

\* ctx.send delivers the message with its embed and buttons
announce_sent ==
    /\ announcing.pc = "send"
    /\ messages' = (NewMessageId :> announcing.view) @@ messages
    /\ announcing' = [announcing EXCEPT !.pc = "record", !.msg = NewMessageId]
    /\ reply' = "none"
    /\ UNCHANGED << tasks, lastid, announcements, inflight, project_channel_id, scan, nops >>

\* INSERT OR REPLACE INTO announcements (message_id, week_start)
announce_record ==
    /\ announcing.pc = "record"
    /\ announcements' = (announcing.msg :> announcing.view.week) @@ announcements
    /\ announcing' = NotAnnouncing
    /\ reply' = "none"
    /\ UNCHANGED << tasks, lastid, messages, inflight, project_channel_id, scan, nops >>

(***************************************************************************)
(* Button callbacks.  A press reaches the callbacks of the view the        *)
(* message shows when the button is pressed.                               *)
(***************************************************************************)
Pressable(m, task_id) == m \in DOMAIN messages /\ task_id \in messages[m].buttons

\* get_announcement_for_message selects from the table "annoucements",
\* which init_db never creates: sqlite3 raises OperationalError
get_announcement_for_message_raises == TRUE

\* refresh_announcement up to `await message.edit(...)`, then the
\* acknowledgement `resp` once the edit has returned
suspend_in_refresh(task_id, user, m, tbl, week_start, resp) ==
    /\ BagCardinality(inflight) < MaxInFlight
    /\ inflight' = inflight (+)
           SetToBag({Handler("edit", task_id, user, m,
                             refresh_view(tbl, week_start), resp)})

\* make_claim_callback of _announce_week
announce_claim_callback(m, task_id, user) ==
    /\ Op
    /\ Pressable(m, task_id)
    /\ messages[m].flow = "announce"
    /\ tasks' = claim_task(tasks, task_id, user)
    /\ IF get_announcement_for_message_raises
       THEN reply' = "error" /\ UNCHANGED inflight
       ELSE /\ suspend_in_refresh(task_id, user, m, tasks', messages[m].week, "claimed")
            /\ reply' = "none"
    /\ UNCHANGED << lastid, announcements, messages, announcing, project_channel_id, scan >>

\* make_claim_callback of refresh_announcement
refresh_claim_callback(m, task_id, user) ==
    /\ Op
    /\ Pressable(m, task_id)
    /\ messages[m].flow = "refresh"
    /\ tasks' = claim_task(tasks, task_id, user)
    /\ suspend_in_refresh(task_id, user, m, tasks', messages[m].week, "claimed")
    /\ reply' = "none"
    /\ UNCHANGED << lastid, announcements, messages, announcing, project_channel_id, scan >>

\* make_complete_callback of _announce_week; tdata.get on None raises
\* AttributeError
announce_complete_callback(m, task_id, user) ==
    /\ Op
    /\ Pressable(m, task_id)
    /\ messages[m].flow = "announce"
    /\ IF ~get_task_found(tasks, task_id)
       THEN reply' = "error" /\ UNCHANGED << tasks, inflight >>
       ELSE IF may_complete(tasks[task_id], user)
       THEN /\ tasks' = complete_task(tasks, task_id)
            /\ suspend_in_refresh(task_id, user, m, tasks', messages[m].week, "completed")
            /\ reply' = "none"
       ELSE reply' = "complete_denied" /\ UNCHANGED << tasks, inflight >>
    /\ UNCHANGED << lastid, announcements, messages, announcing, project_channel_id, scan >>

\* make_complete_callback of refresh_announcement: the same code
refresh_complete_callback(m, task_id, user) ==
    /\ Op
    /\ Pressable(m, task_id)
    /\ messages[m].flow = "refresh"
    /\ IF ~get_task_found(tasks, task_id)
       THEN reply' = "error" /\ UNCHANGED << tasks, inflight >>
       ELSE IF may_complete(tasks[task_id], user)
       THEN /\ tasks' = complete_task(tasks, task_id)
            /\ suspend_in_refresh(task_id, user, m, tasks', messages[m].week, "completed")
            /\ reply' = "none"
       ELSE reply' = "complete_denied" /\ UNCHANGED << tasks, inflight >>
    /\ UNCHANGED << lastid, announcements, messages, announcing, project_channel_id, scan >>

\* `await message.edit(embed=embed, view=view)` returns: the message shows
\* the new embed and view
edit_done(h) ==
    /\ h.pc = "edit"
    /\ messages' = [messages EXCEPT ![h.msg] = h.view]
    /\ inflight' = AfterEdit(h)
    /\ reply' = "none"
    /\ UNCHANGED << tasks, lastid, announcements, announcing, project_channel_id, scan, nops >>

\* message.edit raises and nothing catches it: the callback ends there
edit_failed_propagates(h) ==
    /\ h.pc = "edit"
    /\ inflight' = inflight (-) SetToBag({h})
    /\ reply' = "error"
    /\ UNCHANGED << tasks, lastid, announcements, messages, announcing,
                    project_channel_id, scan, nops >>

\* message.edit raises: logger.exception, and the callback goes on
edit_failed(h) ==
    /\ h.pc = "edit"
    /\ inflight' = AfterEdit(h)
    /\ reply' = "none"
    /\ UNCHANGED << tasks, lastid, announcements, messages, announcing,
                    project_channel_id, scan, nops >>

\* `await interaction.response.send_message(...)`: the callback ends
acknowledge(h) ==
    /\ h.pc = "ack"
    /\ reply' = h.resp
    /\ inflight' = inflight (-) SetToBag({h})
    /\ UNCHANGED << tasks, lastid, announcements, messages, announcing,
                    project_channel_id, scan, nops >>

\* unclaim_task, called with a stored or an unknown id
unclaim(task_id, user) ==
    /\ Op
    /\ tasks' = unclaim_task(tasks, task_id, user)
    /\ reply' = "none"
    /\ UNCHANGED << lastid, announcements, messages, announcing, inflight,
                    project_channel_id, scan >>

\* check_deadlines goes through rows up to its next `await channel.send`,
\* or to its end
loop_from(rows, run, now, sent, store0, before) ==
    LET rest == next_to_send(rows, now)
    IN scan' = [ pc |-> IF rest = << >> THEN "done" ELSE "sending",
                 run |-> run, now |-> now, rows |-> rest,
                 sent |-> IF rest = << >> THEN sent
                          ELSE Append(sent, notification(Head(rest))),
                 store0 |-> store0, before |-> before ]

\* the timer starts a run of check_deadlines at the time now: the open rows
\* are fetched once.  store0 keeps the table as it was then, and before the
\* open tasks that were in the window of the run before.
check_deadlines(now) ==
    /\ Op
    /\ scan.pc # "sending"
    /\ Hours(now) > Hours(scan.now)
    /\ loop_from(fetchall_open(tasks), scan.run + 1, now, << >>, tasks,
                 { i \in DOMAIN scan.store0 :
                       /\ scan.store0[i].completed = 0
                       /\ in_window(scan.now, fromisoformat(scan.store0[i].due_date)) })
    /\ reply' = "none"
    /\ UNCHANGED << tasks, lastid, announcements, messages, announcing, inflight,
                    project_channel_id >>

\* `await channel.send(...)` returns and the loop goes on with the rows
\* that are left
send_returns ==
    /\ scan.pc = "sending"
    /\ loop_from(Tail(scan.rows), scan.run, scan.now, scan.sent, scan.store0,
                 scan.before)
    /\ reply' = "none"
    /\ UNCHANGED << tasks, lastid, announcements, messages, announcing, inflight,
                    project_channel_id, nops >>

Next ==
    \/ \E ch \in Channels, d \in DueTexts, u \in Authors : addtask(ch, d, u)
    \/ \E ch \in Channels, t \in TaskIds, u \in Users : complete(ch, t, u)
    \/ \E ch \in Channels, t \in TaskIds, u \in Users : deletetask(ch, t, u)
    \/ \E ch \in Channels, w \in WeekTexts, today \in Todays : announce_week(ch, w, today)
    \/ announce_sent
    \/ announce_record
    \/ \E m \in MessageIds, t \in TaskIds, u \in Users : announce_claim_callback(m, t, u)
    \/ \E m \in MessageIds, t \in TaskIds, u \in Users : refresh_claim_callback(m, t, u)
    \/ \E m \in MessageIds, t \in TaskIds, u \in Users : announce_complete_callback(m, t, u)
    \/ \E m \in MessageIds, t \in TaskIds, u \in Users : refresh_complete_callback(m, t, u)
    \/ \E h \in Handlers : edit_done(h)
    \/ \E h \in Handlers : edit_failed(h)
    \/ \E h \in Handlers : acknowledge(h)
    \/ \E t \in TaskIds, u \in Users : unclaim(t, u)

Spec == Init /\ [][Next]_vars

\* The reminder loop next to the commands that change the store.  The
\* database file is new, or holds the two rows of an earlier run, or those
\* rows with the first of them claimed by both users; PROJECT_CHANNEL_ID is
\* set or left at its default 0.
ClaimedRows == claim_task(claim_task(EarlierRows, 1, 1), 1, 2)
InitialTablesRem == { << >>, EarlierRows, ClaimedRows }
ReminderChannelConfigs == {0, 1}

InitRem ==
    /\ tasks \in InitialTablesRem
    /\ lastid = Cardinality(DOMAIN tasks)
    /\ announcements = << >>
    /\ messages = << >>
    /\ announcing = NotAnnouncing
    /\ inflight = EmptyBag
    /\ reply = "none"
    /\ project_channel_id \in ReminderChannelConfigs
    /\ scan = NoScan
    /\ nops = 0

NextRem ==
    \/ \E now \in Nows : check_deadlines(now)
    \/ send_returns
    \/ \E ch \in Channels, d \in DueTexts, u \in Authors : addtask(ch, d, u)
    \/ \E ch \in Channels, t \in TaskIds, u \in Users : complete(ch, t, u)
    \/ \E ch \in Channels, t \in TaskIds, u \in Users : deletetask(ch, t, u)
    \/ \E t \in TaskIds, u \in Users : unclaim(t, u)

SpecRem == InitRem /\ [][NextRem]_vars

(***************************************************************************)
(* Properties                                                              *)
(***************************************************************************)
Stored(t) == t \in DOMAIN tasks
StoredAfter(t) == t \in DOMAIN tasks'
Claimers(row) == { row.claimed_by[i] : i \in 1..Len(row.claimed_by) }

\* a step that runs a Claim button callback for task t and user u
ClaimStep(t, u) ==
    \E m \in MessageIds :
        announce_claim_callback(m, t, u) \/ refresh_claim_callback(m, t, u)

\* a step that enters a completion entry point for task t and user u
CompleteStep(t, u) ==
    \/ \E ch \in Channels : complete(ch, t, u)
    \/ \E m \in MessageIds :
          announce_complete_callback(m, t, u) \/ refresh_complete_callback(m, t, u)

UnclaimStep(t, u) == unclaim(t, u)

\* C1: claims of one task by distinct users, interleaved in any way, are
\* all kept: a claim callback of user u on a stored task leaves u in
\* claimed_by, and no step other than an unclaim of u takes a user u out
\* of the claimed_by of a task that stays stored, so that after the claims
\* of A and of B claimed_by holds both.
C1_NoClaimLost ==
    [][ \A t \in TaskIds, u \in Users :
            ( /\ Stored(t) /\ StoredAfter(t)
              /\ u \in Claimers(tasks[t]) \/ ClaimStep(t, u)
              /\ ~UnclaimStep(t, u) )
            => u \in Claimers(tasks'[t]) ]_vars

\* two claim callbacks of distinct users on one task are suspended at the
\* same time, and the task records both users
C1_Witness ==
    \E h1 \in Handlers, h2 \in Handlers :
        /\ h1.resp = "claimed" /\ h2.resp = "claimed"
        /\ h1.task = h2.task /\ h1.user # h2.user
        /\ Stored(h1.task)
        /\ {h1.user, h2.user} \subseteq Claimers(tasks[h1.task])

\* C2: at the complete command and at the Complete button callbacks, for a
\* stored task, completed is set iff the requester is in claimed_by at
\* that moment or is privileged; otherwise the store is unchanged and the
\* permission-denied message is sent.
C2_CompleteIffPermitted ==
    [][ \A t \in TaskIds, u \in Users :
            (Stored(t) /\ CompleteStep(t, u)) =>
                IF u \in Claimers(tasks[t]) \/ u \in Moderators
                THEN StoredAfter(t) /\ tasks'[t].completed = 1
                ELSE tasks' = tasks /\ reply' = "complete_denied" ]_vars

\* a completion was just denied while another task stands completed
C2_Witness ==
    /\ reply = "complete_denied"
    /\ \E t \in DOMAIN tasks : tasks[t].completed = 1
    /\ \E t \in DOMAIN tasks : tasks[t].completed = 0

\* C3: completed is monotonic: no step takes a stored task from
\* completed = 1 to completed = 0.
C3_CompletedMonotonic ==
    [][ \A t \in TaskIds :
            (Stored(t) /\ StoredAfter(t) /\ tasks[t].completed = 1)
            => tasks'[t].completed = 1 ]_vars

\* a completed task has been claimed and a claim callback on it is
\* still running
C3_Witness ==
    \E h \in Handlers :
        /\ h.resp = "claimed"
        /\ Stored(h.task)
        /\ tasks[h.task].completed = 1
        /\ tasks[h.task].claimed_by # << >>

\* C4: a claim callback on a task that is already completed leaves its
\* claimed_by unchanged.
C4_ClaimOnCompletedRejected ==
    [][ \A t \in TaskIds, u \in Users :
            (Stored(t) /\ tasks[t].completed = 1 /\ ClaimStep(t, u))
            => tasks'[t].claimed_by = tasks[t].claimed_by ]_vars

NoDuplicate(list) ==
    \A i \in 1..Len(list), j \in 1..Len(list) : list[i] = list[j] => i = j

\* C5: no user occurs twice in a claimed_by, and a claim by a user who is
\* already in claimed_by leaves claimed_by unchanged.
C5_ClaimIdempotent ==
    /\ [](\A t \in DOMAIN tasks : NoDuplicate(tasks[t].claimed_by))
    /\ [][ \A t \in TaskIds, u \in Users :
              (Stored(t) /\ u \in Claimers(tasks[t]) /\ ClaimStep(t, u))
              => tasks'[t].claimed_by = tasks[t].claimed_by ]_vars

\* one user has pressed Claim twice on one task: the second callback found
\* the user in claimed_by and built the same view as the first
C5_Witness ==
    \E h \in Handlers :
        /\ h.resp = "claimed" /\ h.pc = "edit"
        /\ CopiesIn(h, inflight) = 2
        /\ Stored(h.task)
        /\ h.user \in Claimers(tasks[h.task])

\* C6: deletetask by a non-privileged user sends the permission message
\* and deletes nothing; by a privileged user on an unknown id it sends the
\* not-found message and deletes nothing; otherwise it removes exactly
\* that row.  No other step removes a row.
C6_DeleteGuarded ==
    [][ /\ \A ch \in Channels, t \in TaskIds, u \in Users :
              deletetask(ch, t, u) =>
                  IF u \notin Moderators
                  THEN tasks' = tasks /\ reply' = "delete_denied"
                  ELSE IF ~Stored(t)
                  THEN tasks' = tasks /\ reply' = "delete_not_found"
                  ELSE /\ DOMAIN tasks' = DOMAIN tasks \ {t}
                       /\ \A i \in DOMAIN tasks' : tasks'[i] = tasks[i]
        /\ ~(DOMAIN tasks \subseteq DOMAIN tasks') =>
              \E ch \in Channels, t \in DOMAIN tasks, u \in Moderators :
                  deletetask(ch, t, u) ]_vars

\* a privileged delete of an unknown id was refused while a task is stored
C6_Witness ==
    /\ reply = "delete_not_found"
    /\ DOMAIN tasks # {}

\* C7: with a project channel configured, a mutation command issued from
\* another channel changes neither the task store nor the announcements.
C7_WrongChannelRefused ==
    [][ \A ch \in Channels :
            ( /\ wrong_channel(project_channel_id, ch)
              /\ \/ \E d \in DueTexts, u \in Authors : addtask(ch, d, u)
                 \/ \E t \in TaskIds, u \in Users : complete(ch, t, u)
                 \/ \E t \in TaskIds, u \in Users : deletetask(ch, t, u)
                 \/ \E w \in WeekTexts, today \in Todays : announce_week(ch, w, today) )
            => UNCHANGED << tasks, lastid, announcements, messages, announcing >> ]_vars

\* C8: a claim or complete action on an id that is not stored changes no
\* row, sends the not-found message, and leaves no callback running that
\* will send a success acknowledgement.
C8_UnknownIdNotFound ==
    [][ \A t \in TaskIds, u \in Users :
            (~Stored(t) /\ (ClaimStep(t, u) \/ CompleteStep(t, u)))
            => /\ tasks' = tasks
               /\ reply' = "not_found"
               /\ inflight' = inflight ]_vars

\* C9: a step that changes claimed_by or completed of a task whose week has
\* an announcement message leaves the callback suspended in the edit of
\* that message with the view regenerated from the store.
C9_MutationRefreshesView ==
    [][ \A t \in TaskIds, m \in MessageIds :
            ( /\ Stored(t) /\ StoredAfter(t)
              /\ \/ tasks'[t].claimed_by # tasks[t].claimed_by
                 \/ tasks'[t].completed # tasks[t].completed
              /\ m \in DOMAIN messages
              /\ messages[m].week = tasks[t].week_start )
            => \E h \in BagToSet(inflight') :
                   /\ h.pc = "edit" /\ h.msg = m
                   /\ h.view = refresh_view(tasks', tasks[t].week_start) ]_vars

\* the weeks asked for: two Mondays as stored, and one typed day first
WeekKeys ==
    { iso_date(Date(2025, 1, 27)), iso_date(Date(2025, 2, 3)), Text("/", 27, 1, 2025) }

\* the calendar day of a row's due_date
DueDay(row) == ToOrdinal(parse_date(row.due_date))

ListIsWeek(list, w, openOnly) ==
    LET want == { i \in DOMAIN tasks :
                     /\ tasks[i].week_start = w
                     /\ openOnly => tasks[i].completed = 0 }
    IN /\ Len(list) = Cardinality(want)
       /\ { list[k].id : k \in 1..Len(list) } = want
       /\ \A k \in 1..Len(list) : list[k] = tasks[list[k].id]
       /\ \A k \in 1..(Len(list) - 1) : DueDay(list[k]) <= DueDay(list[k + 1])

\* C10: for every week w, the list of the tasks of w (all, or the open
\* ones) holds exactly the stored rows whose week_start is w (and, open
\* only, whose completed is 0), each once, in ascending order of the
\* calendar date of due_date.
C10_ListTasksForWeek ==
    \A w \in WeekKeys :
        /\ ListIsWeek(get_tasks_for_week(tasks, w), w, FALSE)
        /\ ListIsWeek(get_open_tasks_for_week(tasks, w), w, TRUE)

\* two tasks of one week are stored, the one added later due earlier
C10_Witness ==
    \E i \in DOMAIN tasks, j \in DOMAIN tasks :
        /\ i < j
        /\ tasks[i].week_start = tasks[j].week_start
        /\ DueDay(tasks[j]) < DueDay(tasks[i])
        /\ tasks[i].completed = 1

\* the days of two winters, a leap day and two turns of the year among them
ProbeDates ==
    { dt \in [y : {2024, 2025}, m : {1, 2, 3, 12}, d : 1..31] : ValidDate(dt.y, dt.m, dt.d) }

WeekStartDay(row) == ToOrdinal(parse_date(row.week_start))

\* C11: every stored task has as week_start the Monday on or before its
\* due_date (week_start is a Monday and 0 <= due_date - week_start <= 6),
\* and the week start of a week start is itself, for every date (a fact
\* of the function alone, evaluated once, in the initial states).
C11_WeekStartIsMonday ==
    /\ \A t \in DOMAIN tasks :
          /\ Weekday(parse_date(tasks[t].week_start)) = 0
          /\ DueDay(tasks[t]) - WeekStartDay(tasks[t]) \in 0..6
    /\ nops = 0 =>
          \A dt \in ProbeDates :
              /\ Weekday(parse_date(week_start_of(dt))) = 0
              /\ ToOrdinal(dt) - ToOrdinal(parse_date(week_start_of(dt))) \in 0..6
              /\ week_start_of(parse_date(week_start_of(dt))) = week_start_of(dt)

\* a task due on a Monday has just been added next to one due on a Sunday
C11_Witness ==
    /\ reply = "added"
    /\ \E t \in DOMAIN tasks : DueDay(tasks[t]) - WeekStartDay(tasks[t]) = 0
    /\ \E t \in DOMAIN tasks : DueDay(tasks[t]) - WeekStartDay(tasks[t]) = 6

\* the three layouts of parse_date, as sets of texts that name a day
NamesADay(s) ==
    \/ s.sep = "-" /\ ValidDate(s.f1, s.f2, s.f3)
    \/ s.sep = "/" /\ ValidDate(s.f3, s.f2, s.f1)
    \/ s.sep = "-" /\ ValidDate(s.f3, s.f2, s.f1)

\* C15: an addtask in the project channel whose due-date text names no day
\* in any of the three layouts reports the date error and leaves the store
\* as it was: no row inserted, none changed, and no id consumed.
C15_BadDateChangesNothing ==
    [][ \A ch \in Channels, d \in DueTexts, u \in Authors :
            ( /\ addtask(ch, d, u)
              /\ ~wrong_channel(project_channel_id, ch)
              /\ ~NamesADay(d) )
            => /\ reply' = "date_error"
               /\ tasks' = tasks
               /\ lastid' = lastid ]_vars

\* a date error was just reported to a store that holds rows and has ids
\* left to give
C15_Witness ==
    /\ reply = "date_error"
    /\ tasks # << >>
    /\ lastid < MaxTasks

\* C18: ids are unique and strictly increasing over the whole history: each
\* row is stored under its own id, no stored id is above the largest id
\* ever given, that largest id never decreases, and a row that appears has
\* an id above it, so above every id given before, deleted ones included.
C18_IdsNeverReused ==
    /\ [](\A i \in DOMAIN tasks : tasks[i].id = i /\ i <= lastid)
    /\ [][ /\ lastid' >= lastid
           /\ \A i \in DOMAIN tasks' \ DOMAIN tasks : i > lastid /\ i <= lastid' ]_vars

\* a task has just been added after the task with the largest id was
\* deleted: the deleted id stays unused below the new one
C18_Witness ==
    /\ reply = "added"
    /\ lastid \in DOMAIN tasks
    /\ lastid - 1 \notin DOMAIN tasks
    /\ lastid > 1

\* the store after the step is the store before it, but for column f of
\* the row t
OnlyChanges(t, f) ==
    /\ DOMAIN tasks' = DOMAIN tasks
    /\ \A i \in DOMAIN tasks :
          IF i = t
          THEN \A k \in DOMAIN tasks[i] \ {f} : tasks'[i][k] = tasks[i][k]
          ELSE tasks'[i] = tasks[i]
    /\ lastid' = lastid
    /\ announcements' = announcements

\* C19: a claim or an unclaim of task t changes at most the claimed_by of
\* t, and a completion of t at most the completed of t: every other column
\* of t, every other row, the set of stored ids and the other tables are
\* as before.
C19_MutationFrame ==
    [][ \A t \in TaskIds, u \in Users :
            /\ (ClaimStep(t, u) \/ UnclaimStep(t, u)) => OnlyChanges(t, "claimed_by")
            /\ CompleteStep(t, u) => OnlyChanges(t, "completed") ]_vars

\* a claim callback has recorded its user on an open task while another
\* task stands completed and unclaimed
C19_Witness ==
    \E h \in Handlers, i \in DOMAIN tasks :
        /\ h.resp = "claimed" /\ h.pc = "edit"
        /\ Stored(h.task) /\ i # h.task
        /\ tasks[h.task].completed = 0
        /\ h.user \in Claimers(tasks[h.task])
        /\ tasks[i].completed = 1 /\ tasks[i].claimed_by = << >>

\* C14: when the edit of the announcement message fails in a claim or
\* complete callback, the store is left as it is (a completion made by the
\* callback stands), no error goes to the requester, and the callback goes
\* on to its success acknowledgement.
C14_EditFailureOnlyLogged ==
    [][ \A h \in Handlers :
            edit_failed(h) =>
                /\ tasks' = tasks /\ lastid' = lastid
                /\ (h.resp = "completed" /\ Stored(h.task)) => tasks'[h.task].completed = 1
                /\ reply' # "error"
                /\ \E g \in BagToSet(inflight') :
                      /\ g.pc = "ack" /\ g.resp = h.resp
                      /\ g.task = h.task /\ g.user = h.user ]_vars

\* a Complete callback is about to acknowledge although its edit failed:
\* the message still shows the view of announce_week and the task is
\* completed in the store
C14_Witness ==
    \E h \in Handlers :
        /\ h.pc = "ack" /\ h.resp = "completed"
        /\ h.msg \in DOMAIN messages
        /\ messages[h.msg].flow = "announce"
        /\ Stored(h.task) /\ tasks[h.task].completed = 1

\* what an embed tells of its tasks, in order: id, done or not, claimers
\* (a field of announce_week carries no mark and is read as not done)
Listing(v) ==
    [ k \in 1..Len(v.embed) |->
        << v.embed[k].id, v.embed[k].status = "done", v.embed[k].claimers >> ]

\* C16: the view of a week is one function of the store and the week: for
\* every week that announce_week publishes (it has an open task), the view
\* built by announce_week and the view built by refresh_announcement from
\* the same store list the same tasks with the same status and claimers,
\* and offer buttons for the same tasks.
C16_OneProjection ==
    \A w \in WeekKeys :
        get_open_tasks_for_week(tasks, w) # << >> =>
            /\ Listing(announce_view(tasks, w)) = Listing(refresh_view(tasks, w))
            /\ announce_view(tasks, w).buttons = refresh_view(tasks, w).buttons

\* C17: a Claim callback of the view of announce_week on a stored task, its
\* lookup of the announcement finding no record, falls back to the week it
\* captured: the claim is committed, the callback goes on to refresh the
\* message for that week, and its acknowledgement is still to be sent.
C17_ClaimFallsBackToCapturedWeek ==
    [][ \A m \in MessageIds, t \in TaskIds, u \in Users :
            (announce_claim_callback(m, t, u) /\ Stored(t))
            => /\ u \in Claimers(tasks'[t])
               /\ reply' # "error"
               /\ \E h \in BagToSet(inflight') :
                     /\ h.pc = "edit" /\ h.msg = m
                     /\ h.task = t /\ h.user = u /\ h.resp = "claimed"
                     /\ h.view = refresh_view(tasks', messages[m].week) ]_vars

\* the tasks a run started at now on the table tbl is to notify: open, and
\* due at a midnight from now to REMINDER_HOURS hours after now, both ends
\* included
Due(tbl, now) ==
    { i \in DOMAIN tbl :
          /\ tbl[i].completed = 0
          /\ Hours(now) <= 24 * DueDay(tbl[i])
          /\ 24 * DueDay(tbl[i]) <= Hours(now) + REMINDER_HOURS }
SentIds == { scan.sent[k].id : k \in 1..Len(scan.sent) }
\* each task of ids has one notification among the sent ones, none other
\* has any, and each notification mentions the claimers its task had at the
\* start of the run, or warns that it had none
SentExactly(ids) ==
    /\ Len(scan.sent) = Cardinality(ids)
    /\ SentIds = ids
    /\ \A k \in 1..Len(scan.sent) :
          LET n == scan.sent[k]
          IN /\ n.mentions = scan.store0[n.id].claimed_by
             /\ n.unclaimed <=> scan.store0[n.id].claimed_by = << >>

\* C12 as claimed: a finished run of check_deadlines started at now has
\* sent exactly one notification for each task that was open and due within
\* [now, now + REMINDER_HOURS] when it started, and none for any other; the
\* notification mentions all claimers, or warns that there is none.
C12_OnePerDueTask ==
    scan.pc = "done" => SentExactly(Due(scan.store0, scan.now))

\* C12, amended: the same when the project channel is found; when it is
\* not (PROJECT_CHANNEL_ID is 0 or no channel of the bot), the run sends
\* nothing.
C12_OnePerDueTaskIfChannel ==
    scan.pc = "done" =>
        IF project_channel_id \in Channels
        THEN SentExactly(Due(scan.store0, scan.now))
        ELSE scan.sent = << >>

\* a run has ended after a notification with two mentions for one task
\* and a warning for another, due at the far end of the window, while a
\* third open task, outside the window, got none
C12_Witness ==
    /\ scan.pc = "done"
    /\ \E k \in 1..Len(scan.sent) : Len(scan.sent[k].mentions) = 2
    /\ \E k \in 1..Len(scan.sent) :
          /\ scan.sent[k].unclaimed
          /\ 24 * DueDay(scan.store0[scan.sent[k].id]) = Hours(scan.now) + REMINDER_HOURS
    /\ \E i \in DOMAIN scan.store0 :
          scan.store0[i].completed = 0 /\ i \notin SentIds

\* a run after another has ended, and of the tasks that were open and in
\* the window of the run before, those that are open and in the window of
\* this run were notified again and the others were not
NotifiedAgain ==
    \A t \in scan.before :
        t \in SentIds <=> t \in Due(scan.store0, scan.now)

\* C13 as claimed: nothing is remembered from one run to the next: a task
\* that was open and in the window at the run before is notified by this
\* run iff it is open and in the window of this run as well.
C13_NoDeduplication ==
    (scan.pc = "done" /\ scan.run >= 2) => NotifiedAgain

\* C13, amended: the same when the project channel is found.
C13_NoDeduplicationIfChannel ==
    (scan.pc = "done" /\ scan.run >= 2 /\ project_channel_id \in Channels)
        => NotifiedAgain

\* a second run has ended: one task of the run before was notified again,
\* and another, completed in between, was not
C13_Witness ==
    /\ scan.pc = "done" /\ scan.run >= 2
    /\ \E t \in scan.before : t \in SentIds
    /\ \E t \in scan.before :
          /\ t \notin SentIds
          /\ t \in DOMAIN scan.store0 /\ scan.store0[t].completed = 1

\* a step of check_deadlines that ends in `await channel.send`: the
\* notification for the first of the rows left has just been handed over
Sends == scan' # scan /\ scan'.pc = "sending"

\* C20: whatever complete and deletetask commands run while a run of
\* check_deadlines is suspended in a send, no notification is sent for a
\* task that, at the moment of the send, is completed or deleted.
C20_NoStaleNotification ==
    [][ Sends =>
            LET t == Head(scan'.rows).id
            IN t \in DOMAIN tasks' /\ tasks'[t].completed = 0 ]_vars

====
